---- MODULE Spec2Model ----
(***************************************************************************)
(* Model of the MTG deck builder (src/main.py): the SQLite card store      *)
(* (GestionnaireBD), the CSV loader (ChargeurCSV), the Scryfall client     *)
(* (ClientScryfall), the synergy scorer (CalculatriceSynergie), the colour *)
(* filter (GestionnairesCouleurs), the background import thread            *)
(* (ImportWorker) and the main window's handlers (DeckBuilderApp).         *)
(*                                                                         *)
(* Quantities are REAL/float in the program; the model uses integers, on   *)
(* which float addition is exact.                                          *)
(***************************************************************************)
EXTENDS Integers, Sequences, FiniteSets, TLC

VARIABLES
    bd,               \* DeckBuilderApp.bd: TRUE when a GestionnaireBD is attached
    store,            \* rows of table cartes of the database file, in rowid order
    collection,       \* DeckBuilderApp.collection
    bouton_importer,  \* bouton_importer.isEnabled()
    workers,          \* every ImportWorker created so far, in creation order
    worker,           \* DeckBuilderApp.worker: index into workers, 0 before the first import
    combo_commander,  \* items of the commander combo box
    commander_courant,\* index of the current combo item, 0 when the combo is empty
    tableau,          \* rows shown by tableau_cartes
    crashed,          \* the process was aborted by the Qt runtime
    sens_tri,         \* DeckBuilderApp.sens_tri: column -> 0 (unset), 1 or -1
    arg,              \* test harness: the input of the operation under test
    res               \* test harness: what was observed of it

vars == <<bd, store, collection, bouton_importer, workers, worker,
          combo_commander, commander_courant, tableau, crashed, sens_tri,
          arg, res>>

app_vars == <<bd, store, collection, bouton_importer, workers, worker,
              combo_commander, commander_courant, tableau, crashed, sens_tri>>

----------------------------------------------------------------------------
(* Bounds *)

MaxLignes == 2      \* data rows in an imported CSV file
MaxImports == 2     \* imports started in one run
MaxColl == 3        \* cards in a collection handed to the colour filter
MaxCartes == 2      \* records handed to one direct call of sauvegarder_cartes
MaxQte == 3         \* largest quantity reached by direct calls of augmenter_quantite

(* Program constants *)

MAX_SYNERGY_SCORE == 6
MAX_STARS == 5

----------------------------------------------------------------------------
(* Sequence helpers *)

Range(s) == {s[i] : i \in 1..Len(s)}

SeqsUpTo(S, n) == UNION {[1..k -> S] : k \in 0..n}

\* del s[i] (i is 1-based here)
Retirer(s, i) == [j \in 1..(Len(s) - 1) |-> IF j < i THEN s[j] ELSE s[j + 1]]

----------------------------------------------------------------------------
(* Card records.  A card is the dict the program passes around, reduced to
   the keys the modelled code reads: nom, scryfall_id (sid), quantity (qty),
   type and couleur (a list of colour letters). *)

Types == {"", "Creature", "Legendary Creature"}

\* "Legendary" in carte.get("type", "")
ContientLegendary(type) == type = "Legendary Creature"

Couleurs == {<<>>, <<"U">>, <<"R">>, <<"W", "U">>, <<"U", "R">>}

Carte(nom, sid, qty, type, couleur) ==
    [nom |-> nom, sid |-> sid, qty |-> qty, type |-> type, couleur |-> couleur]

----------------------------------------------------------------------------
(* GestionnaireBD: table cartes.  scryfall_id is declared TEXT UNIQUE; the
   program always binds a string to it (carte.get("scryfall_id", "")), never
   NULL, so the empty identifier is subject to the constraint like any other
   value. *)

\* INSERT into a table without the UNIQUE constraint on scryfall_id
InsertSansUnique(st, carte) == st \o <<carte>>

\* INSERT OR REPLACE INTO cartes: rows that conflict on the UNIQUE column are
\* deleted, then the new row is inserted with a fresh rowid (it goes last)
InsertOrReplace(st, carte) ==
    SelectSeq(st, LAMBDA r : r.sid # carte.sid) \o <<carte>>

RECURSIVE sauvegarder_cartes(_, _)
sauvegarder_cartes(st, cartes) ==
    IF cartes = <<>> THEN st
    ELSE sauvegarder_cartes(InsertOrReplace(st, Head(cartes)), Tail(cartes))

\* SELECT * FROM cartes
charger_toutes_cartes(st) == st

\* DELETE FROM cartes
vider_bd(st) == <<>>

\* SELECT scryfall_id FROM cartes WHERE scryfall_id IS NOT NULL AND scryfall_id != ''
get_existing_scryfall_ids(st) == {r.sid : r \in Range(st)} \ {""}

\* UPDATE cartes SET quantity = ? WHERE scryfall_id = ?
augmenter_quantite_ecrase(st, scryfall_id, quantite) ==
    [i \in 1..Len(st) |->
        IF st[i].sid = scryfall_id
        THEN [st[i] EXCEPT !.qty = quantite]
        ELSE st[i]]

\* UPDATE cartes SET quantity = quantity + ? WHERE scryfall_id = ?
augmenter_quantite(st, scryfall_id, quantite) ==
    [i \in 1..Len(st) |->
        IF st[i].sid = scryfall_id
        THEN [st[i] EXCEPT !.qty = st[i].qty + quantite]
        ELSE st[i]]

\* DELETE FROM cartes WHERE scryfall_id = ?  (issued by supprimer_selection)
supprimer_bd(st, scryfall_id) == SelectSeq(st, LAMBDA r : r.sid # scryfall_id)

----------------------------------------------------------------------------
(* CalculatriceSynergie.calculer *)

\* Python 3 round(n / d) for integers n >= 0, d > 0: ties go to the even
\* neighbour.  The program rounds ((score / 6) * 100 / 100) * 5; for the
\* scores 0..6 the float value is within 1e-15 of score * 5 / 6 and is
\* exactly 2.5 for score 3, so rounding the exact quotient gives the same
\* integer.
RoundHalfEven(n, d) ==
    LET q == n \div d
        r == n % d
    IN  IF 2 * r < d THEN q
        ELSE IF 2 * r > d THEN q + 1
        ELSE IF q % 2 = 0 THEN q ELSE q + 1

Min(a, b) == IF a < b THEN a ELSE b
Max(a, b) == IF a > b THEN a ELSE b

\* the raw score accumulated by calculer before the conversion to stars
ScoreBrut(carte, commander) ==
      (IF ContientLegendary(carte.type) THEN 3 ELSE 0)
    + (IF carte.couleur = <<>> THEN 1 ELSE 0)
    + (IF Range(carte.couleur) \subseteq Range(commander.couleur) THEN 2 ELSE 0)

\* calculer without the colourless bonus
calculer_sans_bonus_incolore(carte, commander) ==
    LET score == ScoreBrut(carte, commander)
                 - (IF carte.couleur = <<>> THEN 1 ELSE 0)
    IN  Max(0, Min(RoundHalfEven(score * MAX_STARS, MAX_SYNERGY_SCORE), MAX_STARS))

calculer(carte, commander) ==
    LET nb_etoiles == RoundHalfEven(ScoreBrut(carte, commander) * MAX_STARS,
                                    MAX_SYNERGY_SCORE)
    IN  Max(0, Min(nb_etoiles, MAX_STARS))

----------------------------------------------------------------------------
(* GestionnairesCouleurs.filtrer_par_couleurs *)

\* valide accepting a card as soon as it shares one colour with the commander
valide_intersection(carte, couleurs_set) ==
    IF carte.couleur = <<>> THEN TRUE
    ELSE Range(carte.couleur) \cap couleurs_set # {}

valide(carte, couleurs_set) ==
    IF carte.couleur = <<>> THEN TRUE
    ELSE Range(carte.couleur) \subseteq couleurs_set

\* filtrer_par_couleurs without the early return on an empty colour list
filtrer_par_couleurs_sans_retour(coll, couleurs_autorisees) ==
    SelectSeq(coll, LAMBDA c : valide(c, Range(couleurs_autorisees)))

filtrer_par_couleurs(coll, couleurs_autorisees) ==
    IF couleurs_autorisees = <<>> THEN coll
    ELSE SelectSeq(coll, LAMBDA c : valide(c, Range(couleurs_autorisees)))

----------------------------------------------------------------------------
(* ChargeurCSV.  A CSV file is its header check and its data rows; a row is
   reduced to the cells Card Name, Scryfall ID and Quantity. *)

LigneCSV(nom, sid, quantity) == [nom |-> nom, sid |-> sid, quantity |-> quantity]

\* the data rows the model draws file contents from
Lignes ==
    { LigneCSV("n1", "a", "1"),
      LigneCSV("n2", "b", "-1"),
      LigneCSV("n1", "", "abc") }

Fichiers ==
    [colonnes_ok : {TRUE}, lignes : SeqsUpTo(Lignes, MaxLignes)]
    \cup {[colonnes_ok |-> FALSE, lignes |-> <<LigneCSV("n1", "a", "1")>>]}

\* float(cell) if cell else 0.0, and 0.0 on ValueError
ParseFloat(cell) ==
    CASE cell = "1" -> 1
      [] cell = "2" -> 2
      [] cell = "-1" -> -1
      [] OTHER -> 0

normaliser_ligne(ligne) ==
    Carte(ligne.nom, ligne.sid, ParseFloat(ligne.quantity), "", <<>>)

\* charger without the call of valider_colonnes
charger_echoue_sans_colonnes(fichier) == fichier.lignes = <<>>

\* valider_colonnes raises, or "Le fichier CSV est vide." is raised
charger_echoue(fichier) == ~fichier.colonnes_ok \/ fichier.lignes = <<>>

\* the collection returned by charger
charger(fichier) ==
    [i \in 1..Len(fichier.lignes) |-> normaliser_ligne(fichier.lignes[i])]

\* int((idx / total) * 100); exact for the totals the bounds allow
Pourcentage(idx, total) == (idx * 100) \div total

\* the values charger passes to callback_progression
charger_progression(fichier) ==
    [i \in 1..Len(fichier.lignes) |-> Pourcentage(i, Len(fichier.lignes))]

----------------------------------------------------------------------------
(* ClientScryfall.  The remote catalogue is a fixed table; whether a lookup
   succeeds is chosen by the environment at each call. *)

Catalogue(id) ==
    CASE id = "a" -> [id |-> "a", type_line |-> "Legendary Creature",
                      color_identity |-> <<"U">>]
      [] id = "b" -> [id |-> "b", type_line |-> "Creature",
                      color_identity |-> <<"R">>]

par_id(scryfall_id) == Catalogue(scryfall_id)

par_nom_fuzzy(nom) == IF nom = "n1" THEN Catalogue("a") ELSE Catalogue("b")

\* enrichir_carte without the test "if data:": an empty answer overwrites the
\* fields with the defaults of data.get
enrichir_carte_sans_garde(carte, reponse) ==
    LET data == IF carte.sid # "" THEN par_id(carte.sid)
                ELSE par_nom_fuzzy(carte.nom)
    IN  IF reponse = "ok"
        THEN [carte EXCEPT !.sid = data.id,
                           !.couleur = data.color_identity,
                           !.type = data.type_line]
        ELSE [carte EXCEPT !.sid = "", !.couleur = <<>>, !.type = ""]

\* reponse = "ok": status 200 with a card object; "vide": the lookup
\* returned {} (non-200, timeout, transport error)
enrichir_carte(carte, reponse) ==
    LET data == IF carte.sid # "" THEN par_id(carte.sid)
                ELSE par_nom_fuzzy(carte.nom)
    IN  IF reponse = "ok"
        THEN [carte EXCEPT !.sid = data.id,
                           !.couleur = data.color_identity,
                           !.type = data.type_line]
        ELSE carte

----------------------------------------------------------------------------
(* ImportWorker.  pc is the position of run():
     "charger"   started, ChargeurCSV.charger not yet done
     "classer"   in the loop that separates new from existing cards
     "enrichir"  in the enrichment loop
     "fini"      fini was emitted and waits for the foreground
     "erreur"    erreur was emitted and waits for the foreground
     "traite"    the foreground handled the notification                  *)

NouveauWorker(fichier, gestionnaire_bd) ==
    [pc |-> "charger", fichier |-> fichier, gestionnaire_bd |-> gestionnaire_bd,
     collection |-> <<>>, existing_ids |-> {}, idx |-> 1,
     nouvelles_cartes |-> <<>>, progression |-> <<>>]

\* the record kept for a worker whose notification was handled
WorkerTraite == [NouveauWorker([colonnes_ok |-> TRUE, lignes |-> <<>>], FALSE)
                    EXCEPT !.pc = "traite"]

EnVol(w) == workers[w].pc \in {"charger", "classer", "enrichir"}

\* DebutEnrichir without progression.emit(0)
DebutEnrichir_sans_remise(wr) ==
    [wr EXCEPT !.idx = 1,
               !.pc = IF wr.nouvelles_cartes = <<>> THEN "fini" ELSE "enrichir"]

\* run() lines 474-484 up to the enrichment loop: progression.emit(0), and
\* fini.emit at once when there is nothing to enrich
DebutEnrichir(wr) ==
    [wr EXCEPT !.progression = Append(@, 0),
               !.idx = 1,
               !.pc = IF wr.nouvelles_cartes = <<>> THEN "fini" ELSE "enrichir"]

\* run() lines 447-459: load the CSV, then read the stored identifiers
Charger(w) ==
    /\ ~crashed
    /\ workers[w].pc = "charger"
    /\ LET wr == workers[w]
       IN  IF charger_echoue(wr.fichier)
           THEN workers' = [workers EXCEPT ![w].pc = "erreur"]
           ELSE LET charge == [wr EXCEPT !.collection = charger(wr.fichier),
                                         !.progression = charger_progression(wr.fichier)]
                IN  IF wr.gestionnaire_bd
                    THEN workers' = [workers EXCEPT ![w] =
                            [charge EXCEPT !.existing_ids = get_existing_scryfall_ids(store),
                                           !.pc = "classer"]]
                    ELSE workers' = [workers EXCEPT ![w] =
                            DebutEnrichir([charge EXCEPT !.nouvelles_cartes = charge.collection])]
    /\ UNCHANGED <<bd, store, collection, bouton_importer, worker,
                   combo_commander, commander_courant, tableau, crashed, sens_tri>>

\* one iteration of the loop of run() lines 462-470; leve: the database
\* call raised (sqlite3 error), which run() turns into erreur
Classer(w, leve) ==
    /\ ~crashed
    /\ workers[w].pc = "classer"
    /\ LET wr == workers[w]
           carte == wr.collection[wr.idx]
           existante == carte.sid # "" /\ carte.sid \in wr.existing_ids
           suite(r) == IF wr.idx = Len(wr.collection)
                       THEN DebutEnrichir(r)
                       ELSE [r EXCEPT !.idx = wr.idx + 1]
       IN  IF existante
           THEN IF leve
                THEN /\ workers' = [workers EXCEPT ![w].pc = "erreur"]
                     /\ store' = store
                ELSE /\ store' = augmenter_quantite(store, carte.sid, carte.qty)
                     /\ workers' = [workers EXCEPT ![w] = suite(wr)]
           ELSE /\ ~leve
                /\ store' = store
                /\ workers' = [workers EXCEPT ![w] =
                      suite([wr EXCEPT !.nouvelles_cartes = Append(@, carte)])]
    /\ UNCHANGED <<bd, collection, bouton_importer, worker,
                   combo_commander, commander_courant, tableau, crashed, sens_tri>>

\* one iteration of the loop of run() lines 478-481, and fini.emit after the
\* last one; reponse = "exception": enrichir_carte raised (the lookup
\* answered 200 with JSON that is not an object), which run() turns into erreur
Enrichir(w, reponse) ==
    /\ ~crashed
    /\ workers[w].pc = "enrichir"
    /\ LET wr == workers[w]
           total == Len(wr.nouvelles_cartes)
           enrichi == [wr EXCEPT
                         !.nouvelles_cartes[wr.idx] = enrichir_carte(@, reponse),
                         !.progression = Append(@, Pourcentage(wr.idx, total)),
                         !.idx = wr.idx + 1]
       IN  IF reponse = "exception"
           THEN workers' = [workers EXCEPT ![w].pc = "erreur"]
           ELSE workers' = [workers EXCEPT ![w] =
                   IF wr.idx = total THEN [enrichi EXCEPT !.pc = "fini"] ELSE enrichi]
    /\ UNCHANGED <<bd, store, collection, bouton_importer, worker,
                   combo_commander, commander_courant, tableau, crashed, sens_tri>>

----------------------------------------------------------------------------
(* DeckBuilderApp: the table and the commander combo box *)

\* a combo item stands for the text "nom [symboles]"; _combo_to_nom maps it
\* back to its nom
ComboItem(carte) == [nom |-> carte.nom, couleur |-> carte.couleur]

\* mettre_a_jour_liste_commanders: the items the combo holds afterwards
mettre_a_jour_liste_commanders(coll) ==
    LET commanders == SelectSeq(coll, LAMBDA c : ContientLegendary(c.type))
    IN  [i \in 1..Len(commanders) |-> ComboItem(commanders[i])]

\* remplir_tableau: one table row per card, with its synergy column
remplir_tableau(cartes, commander) ==
    [i \in 1..Len(cartes) |->
        [carte |-> cartes[i], synergie |-> calculer(cartes[i], commander)]]

\* mettre_a_jour_tableau(texte_combo): the rows of the table afterwards.
\* items/courant give the current combo text (courant = 0: empty text).
mettre_a_jour_tableau(coll, items, courant, tab) ==
    IF coll = <<>> \/ courant = 0 THEN tab
    ELSE LET nom_commander == items[courant].nom
             candidats == {i \in 1..Len(coll) : coll[i].nom = nom_commander}
         IN  IF candidats = {} THEN tab
             ELSE LET commander == coll[CHOOSE i \in candidats :
                                           \A j \in candidats : i <= j]
                  IN  remplir_tableau(
                          filtrer_par_couleurs(coll, commander.couleur), commander)

\* the two calls that end _import_termine and ouvrir_base_donnees; the combo
\* selects its first item when it is refilled
Rafraichir(coll) ==
    LET items == mettre_a_jour_liste_commanders(coll)
        courant == IF items = <<>> THEN 0 ELSE 1
    IN  /\ combo_commander' = items
        /\ commander_courant' = courant
        /\ tableau' = mettre_a_jour_tableau(coll, items, courant, tableau)

----------------------------------------------------------------------------
(* DeckBuilderApp: handlers *)

\* importer_collection with a file chosen in the dialog.  The push button
\* triggers it only while it is enabled; the menu entry "Importer un CSV"
\* is connected to the same slot and is never disabled.
importer_collection(fichier, par_menu) ==
    /\ ~crashed
    /\ Len(workers) < MaxImports
    /\ par_menu \/ bouton_importer
    /\ bouton_importer' = FALSE
    /\ workers' = Append(workers, NouveauWorker(fichier, bd))
    /\ worker' = Len(workers) + 1
    /\ UNCHANGED <<bd, store, collection, combo_commander, commander_courant,
                   tableau, crashed, sens_tri>>

\* _import_termine, run when the foreground receives fini; creer: the user
\* accepts to create a database when none is attached
import_termine(w, creer) ==
    /\ ~crashed
    /\ workers[w].pc = "fini"
    /\ LET recues == workers[w].nouvelles_cartes
       IN  /\ bouton_importer' = TRUE
           /\ workers' = [workers EXCEPT ![w] = WorkerTraite]
           /\ IF recues = <<>>
              THEN /\ ~creer
                   /\ UNCHANGED <<bd, store, collection, combo_commander,
                                  commander_courant, tableau>>
              ELSE /\ collection' = collection \o recues
                   /\ bd' = (bd \/ creer)
                   /\ bd => ~creer
                   /\ store' = IF bd' THEN sauvegarder_cartes(store, recues)
                               ELSE store
                   /\ Rafraichir(collection')
    /\ UNCHANGED <<worker, crashed, sens_tri>>

\* _import_erreur, run when the foreground receives erreur
import_erreur(w) ==
    /\ ~crashed
    /\ workers[w].pc = "erreur"
    /\ bouton_importer' = TRUE
    /\ workers' = [workers EXCEPT ![w] = WorkerTraite]
    /\ UNCHANGED <<bd, store, collection, worker, combo_commander,
                   commander_courant, tableau, crashed, sens_tri>>

\* ouvrir_base_donnees with a file chosen in the dialog
ouvrir_base_donnees ==
    /\ ~crashed
    /\ bd' = TRUE
    /\ collection' = charger_toutes_cartes(store)
    /\ IF collection' = <<>>
       THEN UNCHANGED <<combo_commander, commander_courant, tableau>>
       ELSE Rafraichir(collection')
    /\ UNCHANGED <<store, bouton_importer, workers, worker, crashed, sens_tri>>

\* the user picks another item of the combo: currentTextChanged calls
\* mettre_a_jour_tableau
changer_commander(i) ==
    /\ ~crashed
    /\ i \in 1..Len(combo_commander)
    /\ i # commander_courant
    /\ commander_courant' = i
    /\ tableau' = mettre_a_jour_tableau(collection, combo_commander, i, tableau)
    /\ UNCHANGED <<bd, store, collection, bouton_importer, workers, worker,
                   combo_commander, crashed, sens_tri>>

RECURSIVE SupprimerLignes(_, _, _, _)
\* the loop of supprimer_selection over the selected row numbers, highest
\* first: row number ligne indexes self.collection
SupprimerLignes(lignes, coll, st, tab) ==
    IF lignes = {} THEN [collection |-> coll, store |-> st, tableau |-> tab]
    ELSE LET ligne == CHOOSE l \in lignes : \A m \in lignes : m <= l
             reste == lignes \ {ligne}
         IN  IF ligne <= Len(coll)
             THEN LET carte_a_supprimer == coll[ligne]
                      st2 == IF bd /\ carte_a_supprimer.sid # ""
                             THEN supprimer_bd(st, carte_a_supprimer.sid)
                             ELSE st
                  IN  SupprimerLignes(reste, Retirer(coll, ligne), st2,
                                      Retirer(tab, ligne))
             ELSE SupprimerLignes(reste, coll, st, Retirer(tab, ligne))

\* supprimer_selection with a non-empty selection, confirmed by the user
supprimer_selection(lignes_selectionnees) ==
    /\ ~crashed
    /\ lignes_selectionnees # {}
    /\ lignes_selectionnees \subseteq 1..Len(tableau)
    /\ LET r == SupprimerLignes(lignes_selectionnees, collection, store, tableau)
       IN  /\ collection' = r.collection
           /\ store' = r.store
           /\ tableau' = r.tableau
    /\ UNCHANGED <<bd, bouton_importer, workers, worker, combo_commander,
                   commander_courant, crashed, sens_tri>>

\* the columns whose header the model clicks: Nom (0) and Synergie (4)
Colonnes == {0, 4}

\* the order of the names as strings
RangNom(nom) == IF nom = "n1" THEN 1 ELSE 2

\* QTableWidgetItem::operator< on the text of the cells of a column; the
\* text of the Synergie column is the star symbol repeated, so it is
\* ordered by the number of stars
Cle(ligne, indice_colonne) ==
    IF indice_colonne = 0 THEN RangNom(ligne.carte.nom) ELSE ligne.synergie

\* QTableWidget.sortItems(colonne, ordre): a stable sort of the rows, with
\* "less than" (ordre = 1, ascending) or "greater than" (ordre = -1)
sortItems(tab, indice_colonne, ordre) ==
    LET avant(j, i) ==
            \/ ordre * Cle(tab[j], indice_colonne) < ordre * Cle(tab[i], indice_colonne)
            \/ /\ Cle(tab[j], indice_colonne) = Cle(tab[i], indice_colonne)
               /\ j < i
        place(i) == 1 + Cardinality({j \in 1..Len(tab) : avant(j, i)})
    IN  [k \in 1..Len(tab) |-> tab[CHOOSE i \in 1..Len(tab) : place(i) = k]]

\* trier_tableau_alterne, run when the user clicks a column header
trier_tableau_alterne(indice_colonne) ==
    /\ ~crashed
    /\ LET sens == sens_tri[indice_colonne]
           nouveau_sens == IF sens = 1 THEN -1 ELSE 1
       IN  /\ sens_tri' = [sens_tri EXCEPT ![indice_colonne] = nouveau_sens]
           /\ tableau' = sortItems(tableau, indice_colonne, nouveau_sens)
    /\ UNCHANGED <<bd, store, collection, bouton_importer, workers, worker,
                   combo_commander, commander_courant, crashed>>

\* importer_collection line 667 drops the only reference to the previous
\* ImportWorker.  When that QThread is destroyed while Qt still counts it as
\* running, the Qt runtime aborts the process; whether this happens depends
\* on when the wrapper is collected, so it is left to the environment.
AbandonProcessus(w) ==
    /\ ~crashed
    /\ w # worker
    /\ workers[w].pc \in {"fini", "erreur"}
    /\ crashed' = TRUE
    /\ UNCHANGED <<bd, store, collection, bouton_importer, workers, worker,
                   combo_commander, commander_courant, tableau, sens_tri>>

----------------------------------------------------------------------------
(* The application *)

\* the database file does not exist yet: its table is created empty
StoresInitiaux == { <<>> }

Aucun == [sorte |-> "aucun"]

\* DeckBuilderApp.__init__
InitApp ==
    /\ bd = FALSE
    /\ collection = <<>>
    /\ bouton_importer = TRUE
    /\ workers = <<>>
    /\ worker = 0
    /\ combo_commander = <<>>
    /\ commander_courant = 0
    /\ tableau = <<>>
    /\ crashed = FALSE
    /\ sens_tri = [c \in Colonnes |-> 0]

Init ==
    /\ InitApp
    /\ store \in StoresInitiaux
    /\ arg = Aucun
    /\ res = Aucun

\* the application's steps leave the test harness variables alone
Muet == UNCHANGED <<arg, res>>

\* Clicks on a column header are not among the steps of Next: they change
\* the order of the rows of the table and sens_tri only; NextTableau has them.
Next ==
    \/ \E fichier \in Fichiers, par_menu \in BOOLEAN :
          importer_collection(fichier, par_menu) /\ Muet
    \/ \E w \in 1..Len(workers) : Charger(w) /\ Muet
    \/ \E w \in 1..Len(workers), leve \in BOOLEAN : Classer(w, leve) /\ Muet
    \/ \E w \in 1..Len(workers), reponse \in {"ok", "vide", "exception"} :
          Enrichir(w, reponse) /\ Muet
    \/ \E w \in 1..Len(workers), creer \in BOOLEAN :
          import_termine(w, creer) /\ Muet
    \/ \E w \in 1..Len(workers) : import_erreur(w) /\ Muet
    \/ ouvrir_base_donnees /\ Muet
    \/ \E i \in 1..Len(combo_commander) : changer_commander(i) /\ Muet
    \/ \E lignes_selectionnees \in SUBSET (1..Len(tableau)) :
          supprimer_selection(lignes_selectionnees) /\ Muet
    \/ \E w \in 1..Len(workers) : AbandonProcessus(w) /\ Muet

Spec == Init /\ [][Next]_vars

\* C1: at most one import worker is in flight, and no second import is
\* started before the notification of the previous one was handled.
C1_ImportUnique ==
    /\ Cardinality({w \in 1..Len(workers) : EnVol(w)}) <= 1
    /\ Cardinality({w \in 1..Len(workers) : workers[w].pc # "traite"}) <= 1

\* a step of run() of the import w
PasWorker(w) ==
    /\ w \in 1..Len(workers)
    /\ \/ Charger(w)
       \/ \E leve \in BOOLEAN : Classer(w, leve)
       \/ \E reponse \in {"ok", "vide", "exception"} : Enrichir(w, reponse)

\* the foreground runs the slot connected to the notification of the import w
Notifier(w) ==
    /\ w \in 1..Len(workers)
    /\ \/ \E creer \in BOOLEAN : import_termine(w, creer)
       \/ import_erreur(w)

\* The thread of a started import is scheduled until run() returns, every
\* lookup returns (requests is called with a timeout), and the event loop of
\* the foreground delivers every queued notification.
Equite ==
    \A w \in 1..MaxImports :
        /\ WF_vars(PasWorker(w) /\ Muet)
        /\ WF_vars(Notifier(w) /\ Muet)

SpecEquitable == Spec /\ Equite

\* the terminal notification of the import w was emitted
Emise(w) == w \in 1..Len(workers) /\ workers[w].pc \in {"fini", "erreur", "traite"}

C12_QuantiteNonNegative ==
    /\ \A i \in 1..Len(collection) : collection[i].qty >= 0
    /\ \A i \in 1..Len(store) : store[i].qty >= 0

----------------------------------------------------------------------------
(* The synergy scorer on its own: a card and a commander are drawn, then
   calculer is applied to them. *)

CartesScore ==
    {Carte("n1", "", 1, t, c) : t \in Types, c \in Couleurs}

Commanders == {c \in CartesScore : ContientLegendary(c.type)}

InitScore ==
    /\ InitApp
    /\ store = <<>>
    /\ arg \in {[sorte |-> "score", carte |-> c, commander |-> k] :
                   c \in CartesScore, k \in Commanders}
    /\ res = Aucun

CalculerEssai ==
    /\ arg.sorte = "score"
    /\ res = Aucun
    /\ res' = [sorte |-> "score",
               brut |-> ScoreBrut(arg.carte, arg.commander),
               etoiles |-> calculer(arg.carte, arg.commander)]
    /\ UNCHANGED <<arg, app_vars>>

NextScore == CalculerEssai

SpecScore == InitScore /\ [][NextScore]_vars

\* C8: for every commander, a card that is not legendary and has an empty
\* colour identity has raw score 3 and gets exactly 3 stars.
C8_IncoloreNonLegendaireTroisEtoiles ==
    (/\ res.sorte = "score"
     /\ ~ContientLegendary(arg.carte.type)
     /\ arg.carte.couleur = <<>>)
    => (res.brut = 3 /\ res.etoiles = 3)

\* C9: the star count is an integer between 0 and 5 for every card and
\* commander, and a legendary colourless card gets 5 stars.
C9_BornesEtoiles ==
    res.sorte = "score" =>
        /\ res.etoiles \in 0..5
        /\ (ContientLegendary(arg.carte.type) /\ arg.carte.couleur = <<>>)
              => res.etoiles = 5

C9_Temoin ==
    /\ res.sorte = "score"
    /\ ContientLegendary(arg.carte.type)
    /\ arg.carte.couleur = <<>>
    /\ arg.commander.couleur # <<>>
    /\ res.etoiles = 5

----------------------------------------------------------------------------
(* The colour filter on its own: a collection and a list of allowed colours
   are drawn, then filtrer_par_couleurs is applied to them. *)

CartesFiltre ==
    {Carte("n1", "", 1, "Creature", c) : c \in {<<>>, <<"U">>, <<"R">>, <<"U", "R">>}}

CouleursAutorisees == {<<>>, <<"U">>, <<"W", "U">>}

InitFiltre ==
    /\ InitApp
    /\ store = <<>>
    /\ arg \in {[sorte |-> "filtre", collection |-> coll, couleurs |-> cl] :
                   coll \in SeqsUpTo(CartesFiltre, MaxColl),
                   cl \in CouleursAutorisees}
    /\ res = Aucun

FiltrerEssai ==
    /\ arg.sorte = "filtre"
    /\ res = Aucun
    /\ res' = [sorte |-> "filtre",
               cartes |-> filtrer_par_couleurs(arg.collection, arg.couleurs)]
    /\ UNCHANGED <<arg, app_vars>>

NextFiltre == FiltrerEssai

SpecFiltre == InitFiltre /\ [][NextFiltre]_vars

\* C10: filtering with an empty list of allowed colours returns the input
\* collection unchanged: same cards, same order.
C10_FiltreVideIdentite ==
    (res.sorte = "filtre" /\ arg.couleurs = <<>>) => res.cartes = arg.collection

C10_Temoin ==
    /\ res.sorte = "filtre"
    /\ arg.couleurs = <<>>
    /\ Len(arg.collection) >= 2
    /\ \E i \in 1..Len(arg.collection) : arg.collection[i].couleur # <<>>
    /\ res.cartes = arg.collection

\* C11 as stated: for every collection and every list of allowed colours,
\* the empty list included, the result holds no card whose colour identity
\* is non-empty and not a subset of the allowed colours.
C11_JamaisHorsCouleurs ==
    res.sorte = "filtre" =>
        \A i \in 1..Len(res.cartes) :
            \/ res.cartes[i].couleur = <<>>
            \/ Range(res.cartes[i].couleur) \subseteq Range(arg.couleurs)

\* C11 amended: for every collection and every non-empty list of allowed
\* colours, the result holds no card whose colour identity is non-empty and
\* not a subset of the allowed colours.
C11_JamaisHorsCouleursNonVide ==
    (res.sorte = "filtre" /\ arg.couleurs # <<>>) =>
        \A i \in 1..Len(res.cartes) :
            \/ res.cartes[i].couleur = <<>>
            \/ Range(res.cartes[i].couleur) \subseteq Range(arg.couleurs)

\* a card sharing one colour with the allowed list, but not a subset of it,
\* was dropped while a subset card was kept
C11_Temoin ==
    /\ res.sorte = "filtre"
    /\ arg.couleurs = <<"U">>
    /\ \E i \in 1..Len(arg.collection) : arg.collection[i].couleur = <<"U", "R">>
    /\ \E i \in 1..Len(arg.collection) : arg.collection[i].couleur = <<"U">>
    /\ Len(res.cartes) = Len(arg.collection) - 1
    /\ \A i \in 1..Len(res.cartes) : res.cartes[i].couleur # <<"U", "R">>

----------------------------------------------------------------------------
(* GestionnaireBD on its own: the public methods of the store, and the
   DELETE of supprimer_selection, called in any order with any arguments.
   arg records the last call and res the rows before it. *)

CartesBD ==
    { Carte("n1", "", 1, "", <<>>),
      Carte("n2", "", 2, "", <<>>),
      Carte("n1", "a", 1, "Legendary Creature", <<"U">>),
      Carte("n1", "a", 2, "Legendary Creature", <<"U">>),
      Carte("n2", "b", 1, "Creature", <<"R">>) }

Appel(sorte, cartes, scryfall_id, quantite) ==
    [sorte |-> sorte, cartes |-> cartes, scryfall_id |-> scryfall_id,
     quantite |-> quantite]

Avant == [sorte |-> "avant", store |-> store]

BD_sauvegarder_cartes(cartes) ==
    /\ cartes # <<>>
    /\ store' = sauvegarder_cartes(store, cartes)
    /\ arg' = Appel("sauvegarder_cartes", cartes, "", 0)
    /\ res' = Avant
    /\ UNCHANGED <<bd, collection, bouton_importer, workers, worker,
                   combo_commander, commander_courant, tableau, crashed, sens_tri>>

BD_augmenter_quantite(scryfall_id, quantite) ==
    /\ \A i \in 1..Len(store) :
          store[i].sid = scryfall_id => store[i].qty + quantite \in 0..MaxQte
    /\ store' = augmenter_quantite(store, scryfall_id, quantite)
    /\ arg' = Appel("augmenter_quantite", <<>>, scryfall_id, quantite)
    /\ res' = Avant
    /\ UNCHANGED <<bd, collection, bouton_importer, workers, worker,
                   combo_commander, commander_courant, tableau, crashed, sens_tri>>

BD_supprimer(scryfall_id) ==
    /\ store' = supprimer_bd(store, scryfall_id)
    /\ arg' = Appel("supprimer", <<>>, scryfall_id, 0)
    /\ res' = Avant
    /\ UNCHANGED <<bd, collection, bouton_importer, workers, worker,
                   combo_commander, commander_courant, tableau, crashed, sens_tri>>

BD_vider_bd ==
    /\ store' = vider_bd(store)
    /\ arg' = Appel("vider_bd", <<>>, "", 0)
    /\ res' = Aucun
    /\ UNCHANGED <<bd, collection, bouton_importer, workers, worker,
                   combo_commander, commander_courant, tableau, crashed, sens_tri>>

NextBD ==
    \/ \E cartes \in SeqsUpTo(CartesBD, MaxCartes) : BD_sauvegarder_cartes(cartes)
    \/ \E scryfall_id \in {"a", "b"}, quantite \in {-1, 1} :
          BD_augmenter_quantite(scryfall_id, quantite)
    \/ \E scryfall_id \in {"a", "b"} : BD_supprimer(scryfall_id)
    \/ BD_vider_bd

SpecBD == Init /\ [][NextBD]_vars

\* the application, and vider_bd (which no handler calls) called at any time
NextStore == Next \/ BD_vider_bd

SpecStore == Init /\ [][NextStore]_vars

\* C2: the store never holds two rows with the same non-empty identifier.
C2_IdentifiantUnique ==
    \A i, j \in 1..Len(store) :
        (i # j /\ store[i].sid # "") => store[i].sid # store[j].sid

\* two imported records carried the same identifier and were saved to the
\* attached store, which holds one row for it
C2_Temoin ==
    /\ bd
    /\ \E i, j \in 1..Len(collection) :
          /\ i # j
          /\ collection[i].sid # ""
          /\ collection[i].sid = collection[j].sid
          /\ Cardinality({k \in 1..Len(store) : store[k].sid = collection[i].sid}) = 1

\* C6: saving a record with an empty identifier adds one row and keeps
\* every row stored before, those with an empty identifier included.
C6_IdentifiantVideInsere ==
    (/\ arg.sorte = "sauvegarder_cartes"
     /\ Len(arg.cartes) = 1
     /\ arg.cartes[1].sid = "")
    => store = res.store \o arg.cartes

\* C7: saving through sauvegarder_cartes a record whose non-empty
\* identifier is already stored leaves the stored row for it unchanged.
C7_DoublonIgnore ==
    (/\ arg.sorte = "sauvegarder_cartes"
     /\ Len(arg.cartes) = 1
     /\ arg.cartes[1].sid # "")
    => \A i \in 1..Len(res.store) :
          res.store[i].sid = arg.cartes[1].sid
             => \E j \in 1..Len(store) : store[j] = res.store[i]

----------------------------------------------------------------------------
(* Successive imports of one file against an attached store: the user opens
   the database, then imports the same file again and again with the push
   button, each import after the previous one was handled, and does nothing
   else.  arg is the file; res records the rows of the store when the
   database was opened, when the current import started and after each
   import that ended with fini, whether an import ended with erreur, and
   whether a lookup came back empty. *)

StoresReimport ==
    { <<>>,
      <<Carte("n1", "a", 3, "Legendary Creature", <<"U">>)>> }

InitReimport ==
    /\ InitApp
    /\ \E st \in StoresReimport, fichier \in Fichiers :
          /\ store = st
          /\ arg = [sorte |-> "reimport", fichier |-> fichier]
          /\ res = [sorte |-> "reimport", initial |-> st, debut |-> st,
                    apres |-> <<>>, echec |-> FALSE, degrade |-> FALSE]

R_ouvrir_base_donnees ==
    /\ ~bd
    /\ ouvrir_base_donnees
    /\ Muet

R_importer_collection ==
    /\ bd
    /\ \A w \in 1..Len(workers) : workers[w].pc = "traite"
    /\ importer_collection(arg.fichier, FALSE)
    /\ res' = [res EXCEPT !.debut = store]
    /\ UNCHANGED arg

R_Charger(w) == Charger(w) /\ Muet

R_Classer(w, leve) == Classer(w, leve) /\ Muet

R_Enrichir(w, reponse) ==
    /\ Enrichir(w, reponse)
    /\ res' = [res EXCEPT !.degrade = @ \/ reponse = "vide"]
    /\ UNCHANGED arg

R_import_termine(w) ==
    /\ import_termine(w, FALSE)
    /\ res' = [res EXCEPT !.apres = Append(@, store')]
    /\ UNCHANGED arg

R_import_erreur(w) ==
    /\ import_erreur(w)
    /\ res' = [res EXCEPT !.echec = TRUE]
    /\ UNCHANGED arg

NextReimport ==
    \/ R_ouvrir_base_donnees
    \/ R_importer_collection
    \/ \E w \in 1..Len(workers) : R_Charger(w)
    \/ \E w \in 1..Len(workers), leve \in BOOLEAN : R_Classer(w, leve)
    \/ \E w \in 1..Len(workers), reponse \in {"ok", "vide", "exception"} :
          R_Enrichir(w, reponse)
    \/ \E w \in 1..Len(workers) : R_import_termine(w)
    \/ \E w \in 1..Len(workers) : R_import_erreur(w)

SpecReimport == InitReimport /\ [][NextReimport]_vars

RECURSIVE SommeQuantites(_, _)
\* the sum of the quantities of the cards of a list that carry an identifier
SommeQuantites(cartes, scryfall_id) ==
    IF cartes = <<>> THEN 0
    ELSE (IF Head(cartes).sid = scryfall_id THEN Head(cartes).qty ELSE 0)
         + SommeQuantites(Tail(cartes), scryfall_id)

LignesDe(st, scryfall_id) == {i \in 1..Len(st) : st[i].sid = scryfall_id}

Repos == \A w \in 1..Len(workers) : workers[w].pc = "traite"

C4_Idempotence ==
    (/\ res.sorte = "reimport"
     /\ res.initial = <<>>
     /\ ~res.echec
     /\ ~res.degrade
     /\ Len(res.apres) = 2)
    => LET une == res.apres[1]
           deux == res.apres[2]
       IN  /\ Len(deux) = Len(une)
           /\ \A i \in 1..Len(une) :
                 /\ Cardinality(LignesDe(deux, une[i].sid)) = 1
                 /\ \A j \in LignesDe(deux, une[i].sid) :
                       deux[j].qty = IF une[i].sid # "" THEN 2 * une[i].qty
                                     ELSE une[i].qty

\* C5: when an import ends with erreur, the store holds what it held when
\* that import started.
C5_PasDeCommitPartiel ==
    res.sorte = "reimport" =>
        \A w \in 1..Len(workers) :
            workers[w].pc = "erreur" => store = res.debut

----------------------------------------------------------------------------
(* One import observed from start to end: the user may first open the
   database, then imports one file; the worker runs and the foreground
   handles its notification.  arg is the file; res records the rows of the
   store when the import started, the positions of run() the worker went
   through, the number of rows normalised, every progress value and every
   notification it emitted, the list sent with fini, the answer of every
   lookup, whether a store was attached when the import started, and the
   state of the push button after the notification was handled. *)

ObservationInitiale(st) ==
    [sorte |-> "import", debut |-> st, phases |-> {}, normalisees |-> 0,
     progression |-> <<>>, notifications |-> <<>>, emises |-> <<>>,
     reponses |-> <<>>, attache |-> FALSE, traite |-> FALSE, bouton |-> FALSE]

InitImport ==
    /\ InitApp
    /\ \E st \in StoresReimport, fichier \in Fichiers :
          /\ store = st
          /\ arg = [sorte |-> "import", fichier |-> fichier]
          /\ res = ObservationInitiale(st)

\* what a step of worker w adds to the observation
Observer(w) ==
    LET wr == workers'[w]
        emet == wr.pc \in {"fini", "erreur"} /\ workers[w].pc # wr.pc
    IN  [res EXCEPT !.phases = @ \cup {wr.pc},
                    !.normalisees = Len(wr.collection),
                    !.progression = wr.progression,
                    !.notifications = IF emet THEN Append(@, wr.pc) ELSE @,
                    !.emises = IF emet /\ wr.pc = "fini"
                               THEN wr.nouvelles_cartes ELSE @]

I_ouvrir_base_donnees ==
    /\ ~bd
    /\ workers = <<>>
    /\ ouvrir_base_donnees
    /\ Muet

I_importer_collection(par_menu) ==
    /\ workers = <<>>
    /\ importer_collection(arg.fichier, par_menu)
    /\ res' = [res EXCEPT !.debut = store, !.phases = {"charger"}, !.attache = bd]
    /\ UNCHANGED arg

I_Charger(w) ==
    /\ Charger(w)
    /\ res' = Observer(w)
    /\ UNCHANGED arg

I_Classer(w, leve) ==
    /\ Classer(w, leve)
    /\ res' = Observer(w)
    /\ UNCHANGED arg

I_Enrichir(w, reponse) ==
    /\ Enrichir(w, reponse)
    /\ res' = [Observer(w) EXCEPT !.reponses = Append(@, reponse)]
    /\ UNCHANGED arg

I_import_termine(w, creer) ==
    /\ import_termine(w, creer)
    /\ res' = [res EXCEPT !.traite = TRUE, !.bouton = bouton_importer']
    /\ UNCHANGED arg

I_import_erreur(w) ==
    /\ import_erreur(w)
    /\ res' = [res EXCEPT !.traite = TRUE, !.bouton = bouton_importer']
    /\ UNCHANGED arg

NextImport ==
    \/ I_ouvrir_base_donnees
    \/ \E par_menu \in BOOLEAN : I_importer_collection(par_menu)
    \/ \E w \in 1..Len(workers) : I_Charger(w)
    \/ \E w \in 1..Len(workers), leve \in BOOLEAN : I_Classer(w, leve)
    \/ \E w \in 1..Len(workers), reponse \in {"ok", "vide", "exception"} :
          I_Enrichir(w, reponse)
    \/ \E w \in 1..Len(workers), creer \in BOOLEAN : I_import_termine(w, creer)
    \/ \E w \in 1..Len(workers) : I_import_erreur(w)

SpecImport == InitImport /\ [][NextImport]_vars

\* the file misses a required column, or has a header and no data row
MauvaisFichier(fichier) == ~fichier.colonnes_ok \/ fichier.lignes = <<>>

\* C13: when the file misses a required column or has no data row, the
\* import goes from loading to erreur and nowhere else: no row is normalised,
\* no progress value is emitted, the classification and the enrichment are
\* never entered, the store keeps the rows it had, and fini is never emitted.
C13_AbandonPrecoce ==
    (/\ res.sorte = "import"
     /\ workers # <<>>
     /\ MauvaisFichier(arg.fichier))
    => /\ res.phases \subseteq {"charger", "erreur"}
       /\ res.normalisees = 0
       /\ res.progression = <<>>
       /\ res.notifications \in {<<>>, <<"erreur">>}
       /\ res.emises = <<>>
       /\ store = res.debut
       /\ collection \in {<<>>, res.debut}
       /\ workers[1].pc \in {"charger", "erreur", "traite"}

\* the import of a file without a required column ended with erreur, which
\* the foreground handled, against a store that holds a row
C13_Temoin ==
    /\ res.sorte = "import"
    /\ ~arg.fichier.colonnes_ok
    /\ arg.fichier.lignes # <<>>
    /\ bd
    /\ store # <<>>
    /\ res.notifications = <<"erreur">>
    /\ res.traite

\* C14: within one import every emitted progress value lies in 0..100; the
\* values of the load phase, one per row, never decrease and end at 100; the
\* enrich phase starts with the value 0 and its values never decrease, so
\* the only decrease of the whole sequence is the reset between the phases.
C14_OrdreProgression ==
    (res.sorte = "import" /\ workers # <<>>) =>
        LET p == res.progression
            n == Len(arg.fichier.lignes)
        IN  /\ \A i \in 1..Len(p) : p[i] \in 0..100
            /\ Len(p) > 0 =>
                  /\ Len(p) >= n
                  /\ p[n] = 100
                  /\ \A i, j \in 1..n : i < j => p[i] <= p[j]
            /\ Len(p) > n =>
                  /\ p[n + 1] = 0
                  /\ \A i, j \in (n + 1)..Len(p) : i < j => p[i] <= p[j]
            /\ (res.phases \cap {"enrichir", "fini"} # {}) => Len(p) > n
            /\ Cardinality({i \in 1..(Len(p) - 1) : p[i] > p[i + 1]}) <= 1

\* two rows were loaded and both were enriched
C14_Temoin ==
    /\ res.sorte = "import"
    /\ res.notifications = <<"fini">>
    /\ res.progression = <<50, 100, 0, 50, 100>>

\* the records of the file that run() must classify as new: all of them
\* without an attached store, else those whose identifier is empty or was
\* not stored when the import started
NouvellesAttendues ==
    SelectSeq(charger(arg.fichier),
              LAMBDA c : ~(/\ res.attache
                           /\ c.sid # ""
                           /\ \E i \in 1..Len(res.debut) : res.debut[i].sid = c.sid))

\* C15: a lookup that fails (empty answer) never ends the import with
\* erreur; once every new record got its lookup, each answered or failed,
\* fini is emitted with exactly the records classified as new, in the order
\* of the file, one lookup each, and a record whose lookup failed is passed
\* with the fields it had.
C15_EchecsContenus ==
    (/\ res.sorte = "import"
     /\ res.reponses # <<>>
     /\ \A i \in 1..Len(res.reponses) : res.reponses[i] \in {"ok", "vide"})
    => /\ res.notifications # <<"erreur">>
       /\ Len(res.reponses) <= Len(NouvellesAttendues)
       /\ Len(res.reponses) = Len(NouvellesAttendues) =>
             /\ res.notifications = <<"fini">>
             /\ Len(res.emises) = Len(NouvellesAttendues)
             /\ \A i \in 1..Len(res.emises) :
                   /\ res.emises[i].nom = NouvellesAttendues[i].nom
                   /\ res.emises[i].qty = NouvellesAttendues[i].qty
                   /\ res.reponses[i] = "vide" =>
                         res.emises[i] = NouvellesAttendues[i]
                   /\ res.reponses[i] = "ok" =>
                         /\ res.emises[i].sid \in {"a", "b"}
                         /\ res.emises[i].type # ""

\* the first lookup failed and the second was answered: fini carried both
\* records, the first one as the file gave it
C15_Temoin ==
    /\ res.sorte = "import"
    /\ res.reponses = <<"vide", "ok">>
    /\ res.notifications = <<"fini">>
    /\ Len(res.emises) = 2
    /\ res.emises[1] = normaliser_ligne(arg.fichier.lignes[1])
    /\ res.emises[2].type # ""

----------------------------------------------------------------------------
(* The table and the deletion: the user opens a database that holds cards,
   picks commanders, clicks column headers and deletes selected rows, in any
   order.  res records, for the last deletion, the cards shown in the
   selected rows and the collection and the rows of the store before it. *)

CartesTableau ==
    { Carte("n1", "a", 1, "Legendary Creature", <<"U">>),
      Carte("n2", "b", 1, "Creature", <<"R">>),
      Carte("n2", "c", 2, "Legendary Creature", <<"U", "R">>),
      Carte("n1", "", 1, "Creature", <<>>) }

\* the stores of at most MaxColl rows, no card twice
StoresTableau ==
    {st \in SeqsUpTo(CartesTableau, MaxColl) :
        \A i, j \in 1..Len(st) : i # j => st[i] # st[j]}

InitTableau ==
    /\ InitApp
    /\ store \in StoresTableau
    /\ arg = Aucun
    /\ res = Aucun

T_ouvrir_base_donnees ==
    /\ ~bd
    /\ ouvrir_base_donnees
    /\ Muet

T_changer_commander(i) == changer_commander(i) /\ Muet

T_trier_tableau_alterne(indice_colonne) ==
    /\ tableau # <<>>
    /\ trier_tableau_alterne(indice_colonne)
    /\ Muet

T_supprimer_selection(lignes_selectionnees) ==
    /\ supprimer_selection(lignes_selectionnees)
    /\ arg' = [sorte |-> "suppression", lignes |-> lignes_selectionnees]
    /\ res' = [sorte |-> "suppression",
               montrees |-> {tableau[l].carte : l \in lignes_selectionnees},
               collection |-> collection,
               store |-> store]

NextTableau ==
    \/ T_ouvrir_base_donnees
    \/ \E i \in 1..Len(combo_commander) : T_changer_commander(i)
    \/ \E indice_colonne \in Colonnes : T_trier_tableau_alterne(indice_colonne)
    \/ \E lignes_selectionnees \in SUBSET (1..Len(tableau)) :
          T_supprimer_selection(lignes_selectionnees)

SpecTableau == InitTableau /\ [][NextTableau]_vars

\* C16: after the deletion of selected rows of the table, whatever commander
\* and sort are active, the collection and the store hold what they held
\* before except the cards that were shown in the selected rows, which are
\* gone from both.
C16_SuppressionParIdentifiant ==
    res.sorte = "suppression" =>
        /\ Range(collection) = Range(res.collection) \ res.montrees
        /\ Range(store) = Range(res.store) \ res.montrees

====
